---------------------------- MODULE Spec2Model ----------------------------
(***************************************************************************)
(* Model of the playlist mixer of backend/server.py: the request handler   *)
(* get_tracks (POST /spotify/tracks), its helpers is_selected_artist,      *)
(* is_genre_blocked, add_track and verify_artist_genre, and the token      *)
(* store it reads.  One action per catalog call (or per block of           *)
(* straight-line code between two catalog calls) of the handler.           *)
(***************************************************************************)
EXTENDS Integers, Sequences, FiniteSets, TLC

(***************************************************************************)
(* Strings.  Genres and names are strings; str.lower() and the substring   *)
(* test `a in b` are computed character by character.                      *)
(***************************************************************************)
UpperChars == "ABCDEFGHIJKLMNOPQRSTUVWXYZ"
LowerChars == "abcdefghijklmnopqrstuvwxyz"

\* the lower-case letter of each upper-case letter
LowerOf ==
    [ ch \in { SubSeq(UpperChars, k, k) : k \in 1..Len(UpperChars) } |->
        LET k == CHOOSE n \in 1..Len(UpperChars) : SubSeq(UpperChars, n, n) = ch
        IN  SubSeq(LowerChars, k, k) ]

LowerCh(ch) == IF ch \in DOMAIN LowerOf THEN LowerOf[ch] ELSE ch

RECURSIVE Lower(_)
Lower(s) ==
    IF Len(s) = 0 THEN ""
    ELSE LowerCh(SubSeq(s, 1, 1)) \o Lower(SubSeq(s, 2, Len(s)))

\* Python's `a in b` on two strings
StrIn(a, b) ==
    \E i \in 1..(Len(b) - Len(a) + 1) : SubSeq(b, i, i + Len(a) - 1) = a

SeqToSet(s) == { s[i] : i \in 1..Len(s) }
LowerAll(s) == [ i \in 1..Len(s) |-> Lower(s[i]) ]
Prefix(s, n) == SubSeq(s, 1, IF Len(s) < n THEN Len(s) ELSE n)
Min(a, b) == IF a < b THEN a ELSE b

(***************************************************************************)
(* Genre compatibility filter                                              *)
(***************************************************************************)
BlockedFamilies == <<"rock", "metal", "hip-hop", "pop", "country">>

BLOCKED_GENRES_MAP(family) ==
    CASE family = "rock"    -> <<"hip hop", "rap", "trap", "drill", "reggaeton", "latin",
                                 "country", "k-pop", "j-pop", "r&b", "soul">>
      [] family = "metal"   -> <<"hip hop", "rap", "trap", "drill", "reggaeton", "latin",
                                 "country", "k-pop", "j-pop", "r&b", "soul", "pop">>
      [] family = "hip-hop" -> <<"metal", "rock", "punk", "country", "classical">>
      [] family = "pop"     -> <<"metal", "death", "black metal", "hardcore", "screamo">>
      [] family = "country" -> <<"metal", "hip hop", "rap", "electronic", "techno">>

\* the first loop of is_genre_blocked: some artist genre matches some station genre
MatchesSelectedGenre(artist_genres_lower, station_genres_lower) ==
    \E ag \in SeqToSet(artist_genres_lower) : \E sg \in SeqToSet(station_genres_lower) :
        StrIn(sg, ag) \/ StrIn(ag, sg)

\* blocked_list without the `is_selected` test of lines 433-438
BlockedList_with_selected(station_genres_lower) ==
    UNION { SeqToSet(BLOCKED_GENRES_MAP(f)) :
              f \in { fam \in SeqToSet(BlockedFamilies) :
                        \E sg \in SeqToSet(station_genres_lower) :
                            StrIn(fam, sg) \/ StrIn(sg, fam) } }

\* blocked_list as built by the second loop of is_genre_blocked
BlockedList(station_genres_lower) ==
    { bg \in UNION { SeqToSet(BLOCKED_GENRES_MAP(f)) :
                       f \in { fam \in SeqToSet(BlockedFamilies) :
                                 \E sg \in SeqToSet(station_genres_lower) :
                                     StrIn(fam, sg) \/ StrIn(sg, fam) } } :
        ~ \E sg \in SeqToSet(station_genres_lower) : StrIn(bg, sg) \/ StrIn(sg, bg) }

\* is_genre_blocked without its first loop: the blocklist alone decides
is_genre_blocked_no_override(artist_genres, station_genres) ==
    \E ag \in SeqToSet(LowerAll(artist_genres)) :
        \E bg \in BlockedList(LowerAll(station_genres)) : StrIn(bg, ag)

\* is_genre_blocked(artist_genres, station_genres)[0]
is_genre_blocked(artist_genres, station_genres) ==
    LET artist_genres_lower  == LowerAll(artist_genres)
        station_genres_lower == LowerAll(station_genres)
    IN  IF MatchesSelectedGenre(artist_genres_lower, station_genres_lower)
        THEN FALSE
        ELSE \E ag \in SeqToSet(artist_genres_lower) :
                 \E bg \in BlockedList(station_genres_lower) : StrIn(bg, ag)

(***************************************************************************)
(* The catalog the requests run against (what the Spotify client returns). *)
(* A track is [uri, artists]; artists[1] is its primary artist.            *)
(***************************************************************************)
NumMetalArtists == 9    \* artists the "metal" genre search returns
NumSeeds == 2           \* initial states of the random generator
MaxFailures == 1        \* transient catalog failures injected per request
NumCollaborators == 19  \* featured artists on the album of the seed "q1"
search_limit == 30      \* sp.search(..., limit=30): artists one search returns

ArtistRef(id, name) == [id |-> id, name |-> name]

MetalId(k)   == "m" \o ToString(k)
MetalName(k) == "Band" \o ToString(k)
MetalArtists ==
    [ k \in 1..NumMetalArtists |->
        [id |-> MetalId(k), name |-> MetalName(k), genres |-> <<"heavy metal">>] ]

NamedArtists ==
    << [id |-> "s1", name |-> "Metallica", genres |-> <<"Metal", "Rap Metal">>],
       [id |-> "s2", name |-> "Slayer",    genres |-> <<"rap metal">>],
       [id |-> "r1", name |-> "Queen",     genres |-> <<"rock">>],
       [id |-> "r2", name |-> "Kiss",      genres |-> <<"hard rock">>],
       [id |-> "r3", name |-> "Rush",      genres |-> <<"rock">>],
       [id |-> "n1", name |-> "METALLICA", genres |-> <<"metal">>],
       [id |-> "b1", name |-> "Bunny",     genres |-> <<"reggaeton">>],
       [id |-> "b2", name |-> "Trapper",   genres |-> <<"Trap">>],
       [id |-> "z1", name |-> "Nameless",  genres |-> <<>>],
       [id |-> "j1", name |-> "Miles",     genres |-> <<"jazz">>],
       [id |-> "k1", name |-> "Korn",      genres |-> <<"nu metal">>],
       [id |-> "h1", name |-> "Crossover", genres |-> <<"hip hop", "rock">>],
       [id |-> "h2", name |-> "Rapper",    genres |-> <<"rap">>],
       [id |-> "p1", name |-> "Popstar",   genres |-> <<"dance pop">>],
       [id |-> "p2", name |-> "Idol",      genres |-> <<"k-pop">>],
       [id |-> "d1", name |-> "Grave",     genres |-> <<"death metal">> ] >>

\* a genre with a full page of artists, and the artists featured by the seed "q1"
SkaId(k) == "x" \o ToString(k)
SkaArtists ==
    [ k \in 1..search_limit |->
        [id |-> SkaId(k), name |-> "Ska" \o ToString(k), genres |-> <<"ska">>] ]

CollabId(k) == "y" \o ToString(k)
Collaborators ==
    [ k \in 1..NumCollaborators |->
        [id |-> CollabId(k), name |-> "Feat" \o ToString(k), genres |-> <<"ska punk">>] ]

SkaSeed == [id |-> "q1", name |-> "Quay", genres |-> <<"ska">>]

CatalogArtists ==
    SeqToSet(NamedArtists) \cup SeqToSet(MetalArtists)
        \cup SeqToSet(SkaArtists) \cup SeqToSet(Collaborators) \cup {SkaSeed}
KnownArtist(id) == \E a \in CatalogArtists : a.id = id
ArtistInfo(id)  == CHOOSE a \in CatalogArtists : a.id = id
RefOf(id)       == ArtistRef(id, ArtistInfo(id).name)

\* n tracks of which the artist is the only artist
OwnTracks(id, n) == [ k \in 1..n |-> [uri |-> <<id, k>>, artists |-> <<RefOf(id)>>] ]
\* a track of `primary` on which `featured` appears
Feat(primary, k, featured) ==
    [uri |-> <<primary, k>>, artists |-> <<RefOf(primary), RefOf(featured)>>]

\* sp.artist_top_tracks(id)['tracks']
TopTracks(id) ==
    CASE id = "s1" -> OwnTracks("s1", 4) \o <<Feat(MetalId(2), 1, "s1")>>
      [] id = MetalId(1) -> OwnTracks(id, 6)
      [] id = MetalId(3) -> OwnTracks(id, 4) \o <<Feat("s2", 9, id)>>
      [] id = MetalId(4) -> OwnTracks(id, 4) \o <<Feat("n1", 1, id)>>
      [] id = "k1" -> OwnTracks(id, 4)
      [] id = "h1" -> OwnTracks(id, 2) \o <<Feat("r1", 9, "h1")>>
      [] id = "z1" -> OwnTracks(id, 1)
      [] id \in {"p1", "p2", "h2"} -> OwnTracks(id, 3)
      [] OTHER -> OwnTracks(id, 5)

\* sp.search(q='genre:"<genre>"', type='artist')['artists']['items']
SearchArtists(genre) ==
    CASE genre = "metal" ->
            MetalArtists \o <<ArtistInfo("b1"), ArtistInfo("s1"), ArtistInfo("n1")>>
      [] genre = "rap metal" ->
            <<ArtistInfo(MetalId(1)), ArtistInfo("z1"), ArtistInfo("j1"), ArtistInfo("s2"),
              ArtistInfo("h2")>>
      [] genre = "rock" -> <<ArtistInfo("h1"), ArtistInfo("r1"), ArtistInfo("b1")>>
      [] genre = "hip-hop" -> <<ArtistInfo("h1"), ArtistInfo("h2")>>
      [] genre = "pop" -> <<ArtistInfo("p1"), ArtistInfo("d1"), ArtistInfo("p2")>>
      [] genre = "jazz" -> <<ArtistInfo("j1")>>
      [] genre = "ska" -> SkaArtists
      [] OTHER -> <<>>

\* sp.artist_albums(id)['items']
ArtistAlbums(id) ==
    CASE id = "s1" -> <<[id |-> "al1"], [id |-> "al2"]>>
      [] id = "r2" -> <<[id |-> "al3"]>>
      [] id = "q1" -> <<[id |-> "al9"]>>
      [] OTHER -> <<>>

\* sp.album_tracks(album_id)['items']
AlbumTracks(album_id) ==
    CASE album_id = "al1" ->
            << [uri |-> <<"al1", 1>>, artists |-> <<RefOf("s1")>>],
               [uri |-> <<"al1", 2>>, artists |-> <<RefOf("s1"), RefOf("k1"), RefOf("s2")>>],
               [uri |-> <<"al1", 3>>, artists |-> <<RefOf("s1"), RefOf("k1"), RefOf("b2")>>] >>
      [] album_id = "al2" ->
            << [uri |-> <<"al2", 1>>,
                artists |-> <<RefOf("s1"), RefOf(MetalId(1)), RefOf("h2")>>] >>
      [] album_id = "al3" ->
            << [uri |-> <<"al3", 1>>, artists |-> <<RefOf("r2"), RefOf("h1"), RefOf("z1")>>] >>
      [] album_id = "al9" ->
            [ k \in 1..NumCollaborators |->
                [uri |-> <<"al9", k>>, artists |-> <<RefOf("q1"), RefOf(CollabId(k))>>] ]
      [] OTHER -> <<>>

\* the bodies POSTed to /spotify/tracks
Requests ==
    { [artists |-> <<[id |-> "s1", name |-> "Metallica"], [id |-> "s2", name |-> "Slayer"],
                     [id |-> "gone"]>>,
       genres  |-> <<"Metal">>],
      [artists |-> <<[id |-> "r1"], [id |-> "r2", name |-> "KISS"], [id |-> "r3", name |-> "Rush"]>>,
       genres  |-> <<"rock", "hip-hop">>],
      [artists |-> <<>>, genres |-> <<"Pop", "metal">>],
      [artists |-> <<>>, genres |-> <<>>],
      [artists |-> <<>>,
       genres  |-> <<"Jazz", "jazz", "blues", "folk", "soul", "funk", "disco", "techno">>] }

\* a station whose genre search fills the discovery pool
BigRequest == [artists |-> <<[id |-> "q1"]>>, genres |-> <<"Ska">>]

(***************************************************************************)
(* State                                                                   *)
(***************************************************************************)
VARIABLES
    tokenStore,              \* db.spotify_tokens: the documents of default_user
    request,                 \* the body of the request being served
    history,                 \* the requests served before, with what they answered
    callback,                \* where each spotify_callback request stands
    rng,                     \* state of the process-wide generator of `random`
    pc,                      \* where get_tracks stands
    response,                \* what get_tracks answered ([status |-> 0]: nothing yet)
    sp,                      \* the access token the Spotify client was built with
    artist_ids, artist_names, shuffled_artist_ids,
    selected_artist_tracks, discovery_tracks, seen_uris,
    discovery_artist_names, verified_artist_cache,
    genres, selected_artist_genres, all_target_genres,
    checked_collaborators,
    found_artists, cand, albums, album_tracks,   \* loop-local lists and candidate
    i, g, j, a, t, c,                            \* loop indices (1-based)
    failures,                \* transient failures injected so far
    calls                    \* the catalog calls issued so far, in order

envVars   == <<tokenStore, request, history, callback>>
poolVars  == <<selected_artist_tracks, discovery_tracks, seen_uris, discovery_artist_names>>
seedVars  == <<artist_ids, artist_names, shuffled_artist_ids>>
genreVars == <<genres, selected_artist_genres, all_target_genres>>
loopVars  == <<found_artists, cand, albums, album_tracks, i, g, j, a, t, c>>
vars == <<envVars, rng, pc, response, sp, poolVars, seedVars, genreVars,
          verified_artist_cache, checked_collaborators, loopVars, failures, calls>>

(***************************************************************************)
(* random.shuffle: Fisher-Yates over the generator's successive values     *)
(***************************************************************************)
NextRandom(r) == (r * 3 + 1) % 31

\* the exchanges of positions hi, hi - 1, ..., lo of a shuffle: position p is
\* exchanged with position (draw % p) + 1, each exchange taking one draw.
\* The range is split in two so that the recursion stays shallow; the test on
\* the list comes first so that the upper half is computed before the lower.
RECURSIVE Swaps(_, _, _)
Swaps(st, hi, lo) ==
    IF Len(st.list) < 2 \/ hi < lo THEN st
    ELSE IF hi = lo
    THEN LET m == (st.rng % hi) + 1
         IN  [list |-> [st.list EXCEPT ![hi] = st.list[m], ![m] = st.list[hi]],
              rng  |-> NextRandom(st.rng)]
    ELSE LET mid == (hi + lo) \div 2
         IN  Swaps(Swaps(st, hi, mid + 1), mid, lo)

FisherYates(xs, k, r) == Swaps([list |-> xs, rng |-> r], k, 2)

\* a shuffle that leaves the list, and the generator, as they are
Shuffle_stable(xs, r) == [list |-> xs, rng |-> r]

Shuffle(xs, r) == FisherYates(xs, Len(xs), r)

(***************************************************************************)
(* Catalog calls: the upstream accepts only a good token; a call about an  *)
(* unknown id fails; any other call may fail transiently.                  *)
(***************************************************************************)
TokenAccepted(access_token) == access_token = "good"

Outcomes(known) ==
    IF ~TokenAccepted(sp) \/ ~known THEN {FALSE}
    ELSE IF failures < MaxFailures THEN {TRUE, FALSE} ELSE {TRUE}

Called(api, arg, known, ok) ==
    /\ calls' = Append(calls, [api |-> api, arg |-> arg, ok |-> ok])
    /\ failures' = IF ~ok /\ known /\ TokenAccepted(sp) THEN failures + 1 ELSE failures

\* the call sites, were STEP 1's try/except missing
CaughtSites_step1_unguarded ==
    {"names", "seed_genres", "verify", "search", "tracks",
     "albums", "album_tracks", "collab_tracks"}

\* the call sites, were a failed top-tracks call of STEP 2 (line 573) caught by
\* no except clause
CaughtSites_tracks_unguarded ==
    {"names", "step1", "seed_genres", "verify", "search",
     "albums", "album_tracks", "collab_tracks"}

\* the call sites that stand inside a try whose except clause swallows the error
CaughtSites ==
    {"names", "step1", "seed_genres", "verify", "search", "tracks",
     "albums", "album_tracks", "collab_tracks"}

Caught(site) == site \in CaughtSites

\* an exception no except clause catches: the framework answers 500
Raised(site, ok) == ~ok /\ ~Caught(site)

NoResponse == [status |-> 0, tracks |-> <<>>]
ErrorResponse(code) == [status |-> code, tracks |-> <<>>]

(***************************************************************************)
(* Helpers of get_tracks                                                   *)
(***************************************************************************)
\* is_selected_artist comparing the id only
is_selected_artist_by_id(track) == track.artists[1].id \in SeqToSet(artist_ids)

is_selected_artist(track) ==
    LET track_artist_name == Lower(track.artists[1].name)
        track_artist_id   == track.artists[1].id
    IN  track_artist_id \in SeqToSet(artist_ids) \/ track_artist_name \in artist_names

discovery_limit == 150       \* `len(discovery_tracks) >= 150`, lines 584-592
collaborator_limit == 200    \* `len(discovery_tracks) >= 200`, lines 645-658

\* the pools as a record, so that the loops below can thread them
Pools ==
    [selected |-> selected_artist_tracks, discovery |-> discovery_tracks,
     seen |-> seen_uris, names |-> discovery_artist_names]

\* the pools, were they module-level objects that each request goes on filling
FreshPools_module_level == Pools

\* lines 376-379: the pools a request starts with
FreshPools == [selected |-> <<>>, discovery |-> <<>>, seen |-> {}, names |-> {}]

\* line 380: the cache a request starts with
FreshCache == <<>>

\* track_data with the flag of line 462 set whatever the caller passed
TrackData_flag_set(track, is_discovery) ==
    [uri |-> track.uri, artist |-> track.artists[1].name,
     artist_id |-> track.artists[1].id, is_discovery |-> TRUE]

TrackData(track, is_discovery) ==
    [uri |-> track.uri, artist |-> track.artists[1].name,
     artist_id |-> track.artists[1].id, is_discovery |-> is_discovery]

\* add_track without the seen_uris test
add_track_no_dedup(p, track, is_discovery) ==
    [seen      |-> p.seen \cup {track.uri},
     selected  |-> IF is_discovery THEN p.selected
                   ELSE Append(p.selected, TrackData(track, FALSE)),
     discovery |-> IF is_discovery THEN Append(p.discovery, TrackData(track, TRUE))
                   ELSE p.discovery,
     names     |-> IF is_discovery THEN p.names \cup {track.artists[1].name}
                   ELSE p.names]

\* add_track(track, target_list, is_discovery)
add_track(p, track, is_discovery) ==
    IF track.uri \notin p.seen
    THEN [seen      |-> p.seen \cup {track.uri},
          selected  |-> IF is_discovery THEN p.selected
                        ELSE Append(p.selected, TrackData(track, FALSE)),
          discovery |-> IF is_discovery THEN Append(p.discovery, TrackData(track, TRUE))
                        ELSE p.discovery,
          names     |-> IF is_discovery THEN p.names \cup {track.artists[1].name}
                        ELSE p.names]
    ELSE p

SetPools(p) ==
    /\ selected_artist_tracks' = p.selected
    /\ discovery_tracks' = p.discovery
    /\ seen_uris' = p.seen
    /\ discovery_artist_names' = p.names

\* for track in tracks[:5]: add_track(track, selected_artist_tracks)
RECURSIVE AddSelected(_, _, _)
AddSelected(p, tracks, k) ==
    IF k > Len(tracks) THEN p
    ELSE AddSelected(add_track(p, tracks[k], FALSE), tracks, k + 1)

(***************************************************************************)
(* Init: a request arrives; the token store holds no document, a good one  *)
(* or an expired one.                                                      *)
(***************************************************************************)
TokenDoc(access_token) == [user_id |-> "default_user", access_token |-> access_token]

\* db.spotify_tokens.find_one({"user_id": "default_user"}); NoDoc is None
NoDoc == [user_id |-> "", access_token |-> ""]
FindOne(store) == IF store = <<>> THEN NoDoc ELSE store[1]

\* the handler without its token check
Unauthenticated_never(token_doc) == FALSE

\* line 351: `if not token_doc`
Unauthenticated(token_doc) == token_doc = NoDoc

\* the requests to /spotify/callback that arrive while get_tracks is served
NumCallbacks == 2
Callbacks == 1..NumCallbacks
NoCallbacks == [p \in Callbacks |-> "arrived"]

\* db.spotify_tokens.delete_many({"user_id": "default_user"})
DeleteMany(store, user_id) ==
    SelectSeq(store, LAMBDA doc : doc.user_id # user_id)

\* db.spotify_tokens.insert_one(doc)
InsertOne(store, doc) == Append(store, doc)

\* no request served yet, and the handler at its entry with no local assigned
NoFrame ==
    /\ history = <<>>
    /\ callback = NoCallbacks
    /\ pc = "start"
    /\ response = NoResponse
    /\ sp = ""
    /\ artist_ids = <<>> /\ artist_names = {} /\ shuffled_artist_ids = <<>>
    /\ selected_artist_tracks = <<>> /\ discovery_tracks = <<>>
    /\ seen_uris = {} /\ discovery_artist_names = {}
    /\ verified_artist_cache = FreshCache
    /\ genres = <<>> /\ selected_artist_genres = {} /\ all_target_genres = <<>>
    /\ checked_collaborators = {}
    /\ found_artists = <<>> /\ cand = ArtistRef("", "") /\ albums = <<>> /\ album_tracks = <<>>
    /\ i = 1 /\ g = 1 /\ j = 1 /\ a = 1 /\ t = 1 /\ c = 2
    /\ calls = <<>>

Init ==
    /\ tokenStore \in {<<>>, <<TokenDoc("good")>>, <<TokenDoc("expired")>>}
    /\ request \in Requests
    /\ rng \in 0..(NumSeeds - 1)
    /\ failures = 0
    /\ NoFrame

(***************************************************************************)
(* get_tracks, lines 349-380: token lookup, ids and names of the request   *)
(***************************************************************************)
Authenticate ==
    /\ pc = "start"
    /\ IF Unauthenticated(FindOne(tokenStore))
       THEN /\ response' = ErrorResponse(401)
            /\ pc' = "done"
            /\ UNCHANGED <<sp, seedVars, i>>
       ELSE /\ sp' = FindOne(tokenStore).access_token
            /\ artist_ids' = [k \in 1..Len(request.artists) |-> request.artists[k].id]
            /\ artist_names' = { Lower(ar.name) :
                                   ar \in { x \in SeqToSet(request.artists) : "name" \in DOMAIN x } }
            /\ i' = 1
            /\ pc' = "names"
            /\ UNCHANGED <<response, shuffled_artist_ids>>
    /\ UNCHANGED <<envVars, rng, poolVars, genreVars, verified_artist_cache,
                   checked_collaborators, found_artists, cand, albums, album_tracks,
                   g, j, a, t, c, failures, calls>>

\* lines 366-371: for artist_id in artist_ids[:10]: sp.artist(artist_id)
FetchArtistName ==
    /\ pc = "names"
    /\ i <= Len(Prefix(artist_ids, 10))
    /\ LET id == artist_ids[i] IN
       \E ok \in Outcomes(KnownArtist(id)) :
          /\ Called("artist", id, KnownArtist(id), ok)
          /\ artist_names' = IF ok THEN artist_names \cup {Lower(ArtistInfo(id).name)}
                             ELSE artist_names
          /\ i' = IF Raised("names", ok) THEN i ELSE i + 1
          /\ pc' = IF Raised("names", ok) THEN "done" ELSE pc
          /\ response' = IF Raised("names", ok) THEN ErrorResponse(500) ELSE response
    /\ UNCHANGED <<envVars, rng, sp, poolVars, artist_ids, shuffled_artist_ids, genreVars,
                   verified_artist_cache, checked_collaborators, found_artists, cand,
                   albums, album_tracks, g, j, a, t, c>>

\* lines 375-380: the pools and the cache are created;
\* lines 468-470: shuffled_artist_ids = artist_ids.copy(); random.shuffle(...)
ShuffleArtists ==
    /\ pc = "names"
    /\ i > Len(Prefix(artist_ids, 10))
    /\ SetPools(FreshPools)
    /\ verified_artist_cache' = FreshCache
    /\ LET sh == Shuffle(artist_ids, rng) IN
          /\ shuffled_artist_ids' = sh.list
          /\ rng' = sh.rng
    /\ i' = 1
    /\ pc' = "step1"
    /\ UNCHANGED <<envVars, response, sp, artist_ids, artist_names, genreVars,
                   checked_collaborators, found_artists, cand,
                   albums, album_tracks, g, j, a, t, c, failures, calls>>

\* lines 474-483: STEP 1, one seed artist's top tracks into the selected pool
FetchSeedTopTracks ==
    /\ pc = "step1"
    /\ i <= Len(Prefix(shuffled_artist_ids, 10))
    /\ LET id == shuffled_artist_ids[i] IN
       \E ok \in Outcomes(KnownArtist(id)) :
          /\ Called("artist_top_tracks", id, KnownArtist(id), ok)
          /\ IF ok
             THEN LET sh == Shuffle(TopTracks(id), rng) IN
                     /\ rng' = sh.rng
                     /\ SetPools(AddSelected(Pools, Prefix(sh.list, 5), 1))
             ELSE UNCHANGED <<rng, poolVars>>
          /\ i' = IF Raised("step1", ok) THEN i ELSE i + 1
          /\ pc' = IF Raised("step1", ok) THEN "done" ELSE pc
          /\ response' = IF Raised("step1", ok) THEN ErrorResponse(500) ELSE response
    /\ UNCHANGED <<envVars, sp, seedVars, genreVars, verified_artist_cache,
                   checked_collaborators, found_artists, cand, albums, album_tracks,
                   g, j, a, t, c>>

\* lines 485-495: genres of the request; the seed artists' genres start empty
BeginDiscovery ==
    /\ pc = "step1"
    /\ i > Len(Prefix(shuffled_artist_ids, 10))
    /\ genres' = request.genres
    /\ selected_artist_genres' = {}
    /\ i' = 1
    /\ pc' = "seed_genres"
    /\ UNCHANGED <<envVars, rng, response, sp, poolVars, seedVars, all_target_genres,
                   verified_artist_cache, checked_collaborators, found_artists, cand,
                   albums, album_tracks, g, j, a, t, c, failures, calls>>

\* lines 496-502: for artist_id in artist_ids[:5]: sp.artist(artist_id)['genres']
FetchSeedGenres ==
    /\ pc = "seed_genres"
    /\ i <= Len(Prefix(artist_ids, 5))
    /\ LET id == artist_ids[i] IN
       \E ok \in Outcomes(KnownArtist(id)) :
          /\ Called("artist", id, KnownArtist(id), ok)
          /\ selected_artist_genres' =
                IF ok THEN selected_artist_genres \cup SeqToSet(LowerAll(ArtistInfo(id).genres))
                ELSE selected_artist_genres
          /\ i' = IF Raised("seed_genres", ok) THEN i ELSE i + 1
          /\ pc' = IF Raised("seed_genres", ok) THEN "done" ELSE pc
          /\ response' = IF Raised("seed_genres", ok) THEN ErrorResponse(500) ELSE response
    /\ UNCHANGED <<envVars, rng, sp, poolVars, seedVars, genres, all_target_genres,
                   verified_artist_cache, checked_collaborators, found_artists, cand,
                   albums, album_tracks, g, j, a, t, c>>

\* list(a_set): the elements in an order the program does not control
Orderings(S) == { s \in [1..Cardinality(S) -> S] : SeqToSet(s) = S }

\* line 509 without its filter: the concatenation is kept as it is
Dedupe_keep_all(xs, seen) == xs

\* [x for x in xs if not (x in seen or seen.add(x))]
RECURSIVE Dedupe(_, _)
Dedupe(xs, seen) ==
    IF xs = <<>> THEN <<>>
    ELSE IF Head(xs) \in seen THEN Dedupe(Tail(xs), seen)
    ELSE <<Head(xs)>> \o Dedupe(Tail(xs), seen \cup {Head(xs)})

\* where the loop `for genre in all_target_genres[:6]` stands after moving to entry g2
GenreLoopAt(targets, g2) ==
    IF g2 <= Len(Prefix(targets, 6)) THEN [pc |-> "step2", g |-> g2]
    ELSE [pc |-> "step3", g |-> g2]

\* lines 506-512: all_target_genres
DeriveTargetGenres ==
    /\ pc = "seed_genres"
    /\ i > Len(Prefix(artist_ids, 5))
    /\ \E order \in Orderings(selected_artist_genres) :
          /\ all_target_genres' = Dedupe(order \o LowerAll(genres), {})
          /\ pc' = GenreLoopAt(all_target_genres', 1).pc
    /\ g' = 1
    /\ UNCHANGED <<envVars, rng, response, sp, poolVars, seedVars, genres,
                   selected_artist_genres, verified_artist_cache, checked_collaborators,
                   found_artists, cand, albums, album_tracks, i, j, a, t, c, failures, calls>>

\* where STEP 2 stands after the artist found_artists[j] is dealt with;
\* limit_reached: the `break`s of lines 587-593 were taken
AfterArtist(found, limit_reached) ==
    IF limit_reached THEN [pc |-> "step3", g |-> g, j |-> j]
    ELSE IF j + 1 <= Len(found) THEN [pc |-> "artists", g |-> g, j |-> j + 1]
    ELSE [pc |-> GenreLoopAt(all_target_genres, g + 1).pc, g |-> g + 1, j |-> j]

\* lines 552-560: one genre-scoped artist search
SearchGenre ==
    /\ pc = "step2"
    /\ LET genre == all_target_genres[g] IN
       \E ok \in Outcomes(TRUE) :
          /\ Called("search", genre, TRUE, ok)
          /\ IF ok /\ SearchArtists(genre) # <<>>
             THEN LET sh == Shuffle(SearchArtists(genre), rng) IN
                     /\ found_artists' = sh.list
                     /\ rng' = sh.rng
                     /\ j' = 1
                     /\ g' = g
                     /\ pc' = "artists"
                     /\ response' = response
             ELSE /\ UNCHANGED <<rng, j>>
                  /\ found_artists' = IF ok THEN <<>> ELSE found_artists
                  /\ g' = IF Raised("search", ok) THEN g ELSE g + 1
                  /\ pc' = IF Raised("search", ok) THEN "done"
                           ELSE IF Len(discovery_tracks) >= discovery_limit THEN "step3"
                           ELSE GenreLoopAt(all_target_genres, g + 1).pc
                  /\ response' = IF Raised("search", ok) THEN ErrorResponse(500) ELSE response
    /\ UNCHANGED <<envVars, sp, poolVars, seedVars, genreVars, verified_artist_cache,
                   checked_collaborators, cand, albums, album_tracks, i, a, t, c>>

\* verify_artist_genre without its blocklist test: the overlap test alone decides
VerifyDecision_overlap_only(artist_genres) ==
    LET genre_overlap ==
            \E target_g \in SeqToSet(Prefix(all_target_genres, 8)) :
            \E artist_g \in SeqToSet(LowerAll(artist_genres)) :
                StrIn(target_g, artist_g) \/ StrIn(artist_g, target_g)
    IN  ~(~genre_overlap /\ artist_genres # <<>>)

\* verify_artist_genre with `not genre_overlap` alone at line 540: a candidate
\* without genres is rejected too
VerifyDecision_overlap_required(artist_genres) ==
    IF is_genre_blocked(artist_genres, genres) THEN FALSE
    ELSE \E target_g \in SeqToSet(Prefix(all_target_genres, 8)) :
         \E artist_g \in SeqToSet(LowerAll(artist_genres)) :
             StrIn(target_g, artist_g) \/ StrIn(artist_g, target_g)

\* verify_artist_genre without the overlap test of lines 532-543: the blocklist
\* alone decides
VerifyDecision_blocklist_only(artist_genres) ==
    ~is_genre_blocked(artist_genres, genres)

\* verify_artist_genre after a successful sp.artist: lines 522-545
VerifyDecision(artist_genres) ==
    IF is_genre_blocked(artist_genres, genres) THEN FALSE
    ELSE LET artist_genres_lower == LowerAll(artist_genres)
             genre_overlap ==
                 \E target_g \in SeqToSet(Prefix(all_target_genres, 8)) :
                 \E artist_g \in SeqToSet(artist_genres_lower) :
                     StrIn(target_g, artist_g) \/ StrIn(artist_g, target_g)
         IN  ~(~genre_overlap /\ artist_genres # <<>>)

\* verify_artist_genre's answer: from the cache, from the lookup, or True when
\* the lookup failed (line 548)
VerifyResult(id, ok) ==
    IF id \in DOMAIN verified_artist_cache THEN verified_artist_cache[id]
    ELSE IF ok THEN VerifyDecision(ArtistInfo(id).genres)
    ELSE TRUE

\* verified_artist_cache, were True stored by the except clause of line 546 too
VerifyCache_on_failure(id, ok) ==
    IF id \in DOMAIN verified_artist_cache THEN verified_artist_cache
    ELSE IF ok THEN (id :> VerifyDecision(ArtistInfo(id).genres)) @@ verified_artist_cache
    ELSE (id :> TRUE) @@ verified_artist_cache

\* verified_artist_cache after verify_artist_genre(id): only a decision made after
\* a successful lookup is stored
VerifyCache(id, ok) ==
    IF id \notin DOMAIN verified_artist_cache /\ ok
    THEN (id :> VerifyDecision(ArtistInfo(id).genres)) @@ verified_artist_cache
    ELSE verified_artist_cache

\* lines 562-569: skip the selected artists, verify the others
ConsiderArtist ==
    /\ pc = "artists"
    /\ LET artist == found_artists[j]
           selected == artist.id \in SeqToSet(artist_ids) \/ Lower(artist.name) \in artist_names
           lookup == ~selected /\ artist.id \notin DOMAIN verified_artist_cache
       IN  \E ok \in (IF lookup THEN Outcomes(KnownArtist(artist.id)) ELSE {TRUE}) :
              /\ IF lookup THEN Called("artist", artist.id, KnownArtist(artist.id), ok)
                 ELSE UNCHANGED <<calls, failures>>
              /\ IF selected
                 THEN /\ UNCHANGED <<verified_artist_cache, cand, response>>
                      /\ pc' = AfterArtist(found_artists, FALSE).pc
                      /\ g' = AfterArtist(found_artists, FALSE).g
                      /\ j' = AfterArtist(found_artists, FALSE).j
                 ELSE IF lookup /\ Raised("verify", ok)
                 THEN /\ pc' = "done"
                      /\ response' = ErrorResponse(500)
                      /\ UNCHANGED <<verified_artist_cache, cand, g, j>>
                 ELSE /\ verified_artist_cache' = VerifyCache(artist.id, ok)
                      /\ response' = response
                      /\ IF VerifyResult(artist.id, ok)
                         THEN /\ cand' = ArtistRef(artist.id, artist.name)
                              /\ pc' = "tracks"
                              /\ UNCHANGED <<g, j>>
                         ELSE /\ cand' = cand
                              /\ pc' = AfterArtist(found_artists, FALSE).pc
                              /\ g' = AfterArtist(found_artists, FALSE).g
                              /\ j' = AfterArtist(found_artists, FALSE).j
    /\ UNCHANGED <<envVars, rng, sp, poolVars, seedVars, genreVars, checked_collaborators,
                   found_artists, albums, album_tracks, i, a, t, c>>

\* for track in tracks: if not is_selected_artist(track): add_track(...);
\*                      if len(discovery_tracks) >= limit: break
RECURSIVE AddDiscovery(_, _, _, _)
AddDiscovery(p, tracks, k, limit) ==
    IF k > Len(tracks) THEN p
    ELSE LET p2 == IF ~is_selected_artist(tracks[k]) THEN add_track(p, tracks[k], TRUE) ELSE p
         IN  IF Len(p2.discovery) >= limit THEN p2
             ELSE AddDiscovery(p2, tracks, k + 1, limit)

\* lines 571-590: up to 5 of the candidate's top tracks into the discovery pool
FetchArtistTracks ==
    /\ pc = "tracks"
    /\ \E ok \in Outcomes(KnownArtist(cand.id)) :
          /\ Called("artist_top_tracks", cand.id, KnownArtist(cand.id), ok)
          /\ IF Raised("tracks", ok)
             THEN /\ pc' = "done"
                  /\ response' = ErrorResponse(500)
                  /\ UNCHANGED <<rng, poolVars, g, j>>
             ELSE /\ response' = response
                  /\ IF ok
                     THEN LET sh == Shuffle(TopTracks(cand.id), rng)
                              p  == AddDiscovery(Pools, Prefix(sh.list, 5), 1, discovery_limit)
                              nx == AfterArtist(found_artists,
                                                Len(p.discovery) >= discovery_limit)
                          IN  /\ rng' = sh.rng
                              /\ SetPools(p)
                              /\ pc' = nx.pc /\ g' = nx.g /\ j' = nx.j
                     ELSE LET nx == AfterArtist(found_artists, FALSE) IN
                              /\ UNCHANGED <<rng, poolVars>>
                              /\ pc' = nx.pc /\ g' = nx.g /\ j' = nx.j
    /\ UNCHANGED <<envVars, sp, seedVars, genreVars, verified_artist_cache,
                   checked_collaborators, found_artists, cand, albums, album_tracks,
                   i, a, t, c>>

(***************************************************************************)
(* STEP 3: collaborators found on the seed artists' albums                 *)
(***************************************************************************)
Pos(pc_, i_, a_, t_, c_) == [pc |-> pc_, i |-> i_, a |-> a_, t |-> t_, c |-> c_]

\* the loop `for artist_id in shuffled_artist_ids[:5]` moving to entry i2
SeedLoopAt(i2) ==
    IF i2 <= Len(Prefix(shuffled_artist_ids, 5)) THEN Pos("albums", i2, a, t, c)
    ELSE Pos("assemble", i2, a, t, c)

\* line 658, reached when the album loop is over or was left by `break`
AfterAlbumLoop(len) ==
    IF len >= collaborator_limit THEN Pos("assemble", i, a, t, c) ELSE SeedLoopAt(i + 1)

\* the loop `for album in albums['items'][:5]` moving to entry a2
AlbumLoopAt(albs, a2, len) ==
    IF a2 <= Len(albs) THEN Pos("album_tracks", i, a2, t, c) ELSE AfterAlbumLoop(len)

\* line 653, reached when the loop over the album's tracks is over
AfterTrackLoop(albs, len) ==
    IF len >= collaborator_limit THEN AfterAlbumLoop(len) ELSE AlbumLoopAt(albs, a + 1, len)

\* the next (track, track_artist) of lines 622-624 at or after (t2, c2);
\* track['artists'][1:] starts at the second artist
RECURSIVE CollabAt(_, _, _)
CollabAt(items, t2, c2) ==
    IF t2 > Len(items) THEN [more |-> FALSE, t |-> t2, c |-> 2]
    ELSE IF c2 <= Len(items[t2].artists) THEN [more |-> TRUE, t |-> t2, c |-> c2]
    ELSE CollabAt(items, t2 + 1, 2)

\* after one pass of the track_artist loop: by `continue` (lines 626, 632, 648),
\* or through line 650, whose `break` leaves the track_artist loop only
AfterCollab(by_continue, len) ==
    LET nx == IF ~by_continue /\ len >= collaborator_limit
              THEN CollabAt(album_tracks, t + 1, 2)
              ELSE CollabAt(album_tracks, t, c + 1)
    IN  IF nx.more THEN Pos("collab", i, a, nx.t, nx.c) ELSE AfterTrackLoop(albums, len)

Goto(nx) == pc' = nx.pc /\ i' = nx.i /\ a' = nx.a /\ t' = nx.t /\ c' = nx.c

\* lines 604-609
BeginCollaborators ==
    /\ pc = "step3"
    /\ checked_collaborators' = {}
    /\ Goto(SeedLoopAt(1))
    /\ UNCHANGED <<envVars, rng, response, sp, poolVars, seedVars, genreVars,
                   verified_artist_cache, found_artists, cand, albums, album_tracks,
                   g, j, failures, calls>>

\* lines 612-617: the albums of one seed artist
FetchAlbums ==
    /\ pc = "albums"
    /\ LET id == shuffled_artist_ids[i] IN
       \E ok \in Outcomes(KnownArtist(id)) :
          /\ Called("artist_albums", id, KnownArtist(id), ok)
          /\ IF Raised("albums", ok)
             THEN /\ pc' = "done" /\ response' = ErrorResponse(500)
                  /\ UNCHANGED <<albums, i, a, t, c>>
             ELSE /\ response' = response
                  /\ albums' = IF ok THEN Prefix(ArtistAlbums(id), 5) ELSE albums
                  /\ Goto(IF ok THEN AlbumLoopAt(albums', 1, Len(discovery_tracks))
                          ELSE SeedLoopAt(i + 1))
    /\ UNCHANGED <<envVars, rng, sp, poolVars, seedVars, genreVars, verified_artist_cache,
                   checked_collaborators, found_artists, cand, album_tracks, g, j>>

\* lines 618-622: the tracks of one album
FetchAlbumTracks ==
    /\ pc = "album_tracks"
    /\ LET album == albums[a] IN
       \E ok \in Outcomes(TRUE) :
          /\ Called("album_tracks", album.id, TRUE, ok)
          /\ IF Raised("album_tracks", ok)
             THEN /\ pc' = "done" /\ response' = ErrorResponse(500)
                  /\ UNCHANGED <<album_tracks, i, a, t, c>>
             ELSE /\ response' = response
                  /\ album_tracks' = IF ok THEN AlbumTracks(album.id) ELSE album_tracks
                  /\ Goto(IF ~ok THEN AlbumLoopAt(albums, a + 1, Len(discovery_tracks))
                          ELSE LET nx == CollabAt(album_tracks', 1, 2) IN
                               IF nx.more THEN Pos("collab", i, a, nx.t, nx.c)
                               ELSE AfterTrackLoop(albums, Len(discovery_tracks)))
    /\ UNCHANGED <<envVars, rng, sp, poolVars, seedVars, genreVars, verified_artist_cache,
                   checked_collaborators, found_artists, cand, albums, g, j>>

\* lines 624-632: one featured artist of one album track
ConsiderCollaborator ==
    /\ pc = "collab"
    /\ LET track_artist == album_tracks[t].artists[c]
           checked  == track_artist.id \in checked_collaborators
           selected == ~(track_artist.id \notin SeqToSet(artist_ids)
                          /\ Lower(track_artist.name) \notin artist_names)
           lookup   == ~checked /\ ~selected
                       /\ track_artist.id \notin DOMAIN verified_artist_cache
           len      == Len(discovery_tracks)
       IN  \E ok \in (IF lookup THEN Outcomes(KnownArtist(track_artist.id)) ELSE {TRUE}) :
              /\ IF lookup
                 THEN Called("artist", track_artist.id, KnownArtist(track_artist.id), ok)
                 ELSE UNCHANGED <<calls, failures>>
              /\ IF checked
                 THEN /\ Goto(AfterCollab(TRUE, len))
                      /\ UNCHANGED <<checked_collaborators, verified_artist_cache, cand, response>>
                 ELSE IF selected
                 THEN /\ checked_collaborators' = checked_collaborators \cup {track_artist.id}
                      /\ Goto(AfterCollab(FALSE, len))
                      /\ UNCHANGED <<verified_artist_cache, cand, response>>
                 ELSE IF lookup /\ Raised("verify", ok)
                 THEN /\ pc' = "done" /\ response' = ErrorResponse(500)
                      /\ checked_collaborators' = checked_collaborators \cup {track_artist.id}
                      /\ UNCHANGED <<verified_artist_cache, cand, i, a, t, c>>
                 ELSE /\ checked_collaborators' = checked_collaborators \cup {track_artist.id}
                      /\ verified_artist_cache' = VerifyCache(track_artist.id, ok)
                      /\ response' = response
                      /\ IF VerifyResult(track_artist.id, ok)
                         THEN /\ cand' = track_artist
                              /\ pc' = "collab_tracks"
                              /\ UNCHANGED <<i, a, t, c>>
                         ELSE /\ cand' = cand
                              /\ Goto(AfterCollab(TRUE, len))
    /\ UNCHANGED <<envVars, rng, sp, poolVars, seedVars, genreVars, found_artists,
                   albums, album_tracks, g, j>>

\* lines 634-648: up to 3 of the collaborator's top tracks into the discovery pool
FetchCollabTracks ==
    /\ pc = "collab_tracks"
    /\ \E ok \in Outcomes(KnownArtist(cand.id)) :
          /\ Called("artist_top_tracks", cand.id, KnownArtist(cand.id), ok)
          /\ IF Raised("collab_tracks", ok)
             THEN /\ pc' = "done" /\ response' = ErrorResponse(500)
                  /\ UNCHANGED <<rng, poolVars, i, a, t, c>>
             ELSE /\ response' = response
                  /\ IF ok
                     THEN LET sh == Shuffle(TopTracks(cand.id), rng)
                              p  == AddDiscovery(Pools, Prefix(sh.list, 3), 1, collaborator_limit)
                          IN  /\ rng' = sh.rng
                              /\ SetPools(p)
                              /\ Goto(AfterCollab(FALSE, Len(p.discovery)))
                     ELSE /\ UNCHANGED <<rng, poolVars>>
                          /\ Goto(AfterCollab(TRUE, Len(discovery_tracks)))
    /\ UNCHANGED <<envVars, sp, seedVars, genreVars, verified_artist_cache,
                   checked_collaborators, found_artists, cand, albums, album_tracks, g, j>>

(***************************************************************************)
(* STEP 4: the final playlist                                              *)
(***************************************************************************)
target_total == 50
discovery_percent == 80                                     \* the 0.80 of line 670
target_discovery == (target_total * discovery_percent) \div 100
target_selected == target_total - target_discovery
group_size == 4                                             \* range(4), line 698

\* the discovery share without the fill of line 687
FinalDiscovery_no_fill(disc, sel) == Prefix(disc, target_discovery)

\* lines 678-687: what is taken from the shuffled discovery pool
FinalDiscovery(disc, sel) ==
    LET final_discovery == Prefix(disc, target_discovery)
        final_selected  == Prefix(sel, target_selected)
    IN  IF Len(final_discovery) < target_discovery THEN final_discovery
        ELSE IF Len(final_selected) < target_selected
        THEN Prefix(disc, target_discovery + (target_selected - Len(final_selected)))
        ELSE final_discovery

\* the selected share without the fill of line 684
FinalSelected_no_fill(disc, sel) == Prefix(sel, target_selected)

\* lines 678-687: what is taken from the shuffled selected pool
FinalSelected(disc, sel) ==
    LET final_discovery == Prefix(disc, target_discovery)
        final_selected  == Prefix(sel, target_selected)
    IN  IF Len(final_discovery) < target_discovery
        THEN Prefix(sel, target_selected + (target_discovery - Len(final_discovery)))
        ELSE final_selected

\* no interleaving: the discovery tracks, then the selected tracks
Interleave_concatenated(fd, fs, discovery_idx, selected_idx, all_tracks) == fd \o fs

\* the loop emitting the selected track before the group of discovery tracks
RECURSIVE Interleave_selected_first(_, _, _, _, _)
Interleave_selected_first(fd, fs, discovery_idx, selected_idx, all_tracks) ==
    IF ~(discovery_idx < Len(fd) \/ selected_idx < Len(fs)) THEN all_tracks
    ELSE LET n    == Min(group_size, Len(fd) - discovery_idx)
             take == selected_idx < Len(fs)
             out  == IF take THEN Append(all_tracks, fs[selected_idx + 1]) ELSE all_tracks
         IN  Interleave_selected_first(fd, fs, discovery_idx + n,
                        IF take THEN selected_idx + 1 ELSE selected_idx,
                        out \o SubSeq(fd, discovery_idx + 1, discovery_idx + n))

\* lines 691-706, indices 0-based as in the code
RECURSIVE Interleave(_, _, _, _, _)
Interleave(fd, fs, discovery_idx, selected_idx, all_tracks) ==
    IF ~(discovery_idx < Len(fd) \/ selected_idx < Len(fs)) THEN all_tracks
    ELSE LET n    == Min(group_size, Len(fd) - discovery_idx)
             out  == all_tracks \o SubSeq(fd, discovery_idx + 1, discovery_idx + n)
             take == selected_idx < Len(fs)
         IN  Interleave(fd, fs, discovery_idx + n,
                        IF take THEN selected_idx + 1 ELSE selected_idx,
                        IF take THEN Append(out, fs[selected_idx + 1]) ELSE out)

\* lines 667-718
Assemble ==
    /\ pc = "assemble"
    /\ LET shd == Shuffle(discovery_tracks, rng)
           shs == Shuffle(selected_artist_tracks, shd.rng)
       IN  /\ discovery_tracks' = shd.list
           /\ selected_artist_tracks' = shs.list
           /\ rng' = shs.rng
           /\ response' = [status |-> 200,
                           tracks |-> Interleave(FinalDiscovery(shd.list, shs.list),
                                                 FinalSelected(shd.list, shs.list),
                                                 0, 0, <<>>)]
    /\ pc' = "done"
    /\ UNCHANGED <<envVars, sp, seen_uris, discovery_artist_names, seedVars, genreVars,
                   verified_artist_cache, checked_collaborators, loopVars, failures, calls>>

Next ==
    \/ Authenticate
    \/ FetchArtistName
    \/ ShuffleArtists
    \/ FetchSeedTopTracks
    \/ BeginDiscovery
    \/ FetchSeedGenres
    \/ DeriveTargetGenres
    \/ SearchGenre
    \/ ConsiderArtist
    \/ FetchArtistTracks
    \/ BeginCollaborators
    \/ FetchAlbums
    \/ FetchAlbumTracks
    \/ ConsiderCollaborator
    \/ FetchCollabTracks
    \/ Assemble

Spec == Init /\ [][Next]_vars

(***************************************************************************)
(* A station whose catalog is large enough to fill the discovery pool      *)
(***************************************************************************)
InitLimit ==
    /\ tokenStore = <<TokenDoc("good")>>
    /\ request = BigRequest
    /\ rng \in 0..(NumSeeds - 1)
    /\ failures = 0
    /\ NoFrame

SpecLimit == InitLimit /\ [][Next]_vars

(***************************************************************************)
(* Two requests served one after the other by the same process. get_tracks *)
(* awaits only find_one (line 349); from there to its return it runs       *)
(* without yielding to the event loop, so that the bodies of two           *)
(* concurrent requests run one after the other, in either order.  The      *)
(* module `random` and the token store outlive a request; the names        *)
(* assigned in get_tracks are bound anew by each call, and the model       *)
(* leaves in them what the previous request left.                          *)
(***************************************************************************)
Served == [request |-> request, response |-> response, calls |-> calls,
           targets |-> all_target_genres, pool |-> discovery_tracks]

NextRequest ==
    /\ pc = "done"
    /\ history = <<>>
    /\ history' = Append(history, Served)
    /\ request' \in Requests
    /\ pc' = "start"
    /\ response' = NoResponse
    /\ calls' = <<>>
    /\ UNCHANGED <<tokenStore, callback, rng, sp, poolVars, seedVars, genreVars,
                   verified_artist_cache, checked_collaborators, loopVars, failures>>

\* no transient failure is left to inject: the catalog answers both requests alike
InitConsecutive ==
    /\ tokenStore \in {<<>>, <<TokenDoc("good")>>, <<TokenDoc("expired")>>}
    /\ request \in Requests
    /\ rng \in 0..(NumSeeds - 1)
    /\ failures = MaxFailures
    /\ NoFrame

NextConsecutive == Next \/ NextRequest

SpecConsecutive == InitConsecutive /\ [][NextConsecutive]_vars

(***************************************************************************)
(* spotify_callback (lines 169-194) served by the same event loop.  The    *)
(* handler yields at its two awaits, delete_many and insert_one; get_tracks *)
(* yields only at find_one, so a step of a callback falls before the        *)
(* find_one of the request or after its return.                             *)
(***************************************************************************)
Yielded == pc \in {"start", "done"}

\* line 181: sp_oauth.get_access_token(code); a refused code raises (500)
ExchangeCode(p) ==
    /\ Yielded
    /\ callback[p] = "arrived"
    /\ \E ok \in BOOLEAN :
          callback' = [callback EXCEPT ![p] = IF ok THEN "delete" ELSE "failed"]
    /\ UNCHANGED <<tokenStore, request, history, rng, pc, response, sp, poolVars, seedVars,
                   genreVars, verified_artist_cache, checked_collaborators, loopVars,
                   failures, calls>>

\* line 184
DeleteTokens(p) ==
    /\ Yielded
    /\ callback[p] = "delete"
    /\ tokenStore' = DeleteMany(tokenStore, "default_user")
    /\ callback' = [callback EXCEPT ![p] = "insert"]
    /\ UNCHANGED <<request, history, rng, pc, response, sp, poolVars, seedVars,
                   genreVars, verified_artist_cache, checked_collaborators, loopVars,
                   failures, calls>>

\* lines 185-190, then the redirect of line 194
InsertToken(p) ==
    /\ Yielded
    /\ callback[p] = "insert"
    /\ tokenStore' = InsertOne(tokenStore, TokenDoc("good"))
    /\ callback' = [callback EXCEPT ![p] = "redirected"]
    /\ UNCHANGED <<request, history, rng, pc, response, sp, poolVars, seedVars,
                   genreVars, verified_artist_cache, checked_collaborators, loopVars,
                   failures, calls>>

spotify_callback(p) == ExchangeCode(p) \/ DeleteTokens(p) \/ InsertToken(p)

InitCallback ==
    /\ tokenStore \in {<<>>, <<TokenDoc("good")>>, <<TokenDoc("expired")>>}
    /\ request = CHOOSE r \in Requests : r.genres = <<"Metal">>
    /\ rng \in 0..(NumSeeds - 1)
    /\ failures = MaxFailures
    /\ NoFrame

NextCallback == Next \/ \E p \in Callbacks : spotify_callback(p)

SpecCallback == InitCallback /\ [][NextCallback]_vars

(***************************************************************************)
(* Properties                                                              *)
(***************************************************************************)
Uris(tracks) == { tracks[k].uri : k \in 1..Len(tracks) }
Answered == pc = "done" /\ response.status = 200
CallOk(api, arg) == \E k \in 1..Len(calls) : calls[k] = [api |-> api, arg |-> arg, ok |-> TRUE]

\* C1: at every point of a request no URI occurs twice across the selected and
\* the discovery pool together, and no URI occurs twice in the returned playlist
C1_NoDuplicateUri ==
    /\ Cardinality(Uris(selected_artist_tracks) \cup Uris(discovery_tracks))
           = Len(selected_artist_tracks) + Len(discovery_tracks)
    /\ Cardinality(Uris(response.tracks)) = Len(response.tracks)

\* a playlist was returned after the same URI (the track of m2 on which s1 is
\* featured) was offered by a seed's top tracks and by a candidate's top tracks
C1_Witness ==
    /\ Answered
    /\ CallOk("artist_top_tracks", "s1") /\ CallOk("artist_top_tracks", "m2")
    /\ \E k \in 1..Len(response.tracks) :
          response.tracks[k].uri = <<"m2", 1>> /\ ~response.tracks[k].is_discovery

\* C2: no track flagged is_discovery, in the pool or in the returned playlist,
\* has a primary artist whose id is a seed id or whose lower-cased name is a
\* seed name
PrimaryArtists(tracks) ==
    { ArtistRef(tracks[k].artist_id, tracks[k].artist) :
        k \in { n \in 1..Len(tracks) : tracks[n].is_discovery } }

NotFromSeed(tracks) ==
    \A ar \in PrimaryArtists(tracks) :
        /\ ar.id \notin SeqToSet(artist_ids)
        /\ Lower(ar.name) \notin artist_names

C2_DiscoveryNotSeed ==
    /\ \A k \in 1..Len(discovery_tracks) : discovery_tracks[k].is_discovery
    /\ NotFromSeed(discovery_tracks)
    /\ NotFromSeed(response.tracks)

\* a playlist was returned after candidates m3 and m4 offered a track of seed s2
\* (by id) and a track of the artist named METALLICA (by name), and after a
\* collaborator's tracks were added
C2_Witness ==
    /\ Answered
    /\ CallOk("artist_top_tracks", "m3") /\ CallOk("artist_top_tracks", "m4")
    /\ CallOk("artist_top_tracks", "k1")
    /\ \E k \in 1..Len(response.tracks) : response.tracks[k].artist_id = "k1"
    /\ \E k \in 1..Len(response.tracks) : response.tracks[k].artist_id = "m3"

\* C3: is_genre_blocked answers not-blocked whenever a candidate genre and a
\* station genre match as substrings in either direction after lower-casing;
\* and a candidate verified with such genres is accepted whenever the station
\* genres lie within the 8 target genres the overlap test reads
GenresMatch(artist_genres, station_genres) ==
    \E m \in 1..Len(artist_genres) : \E n \in 1..Len(station_genres) :
        \/ StrIn(Lower(station_genres[n]), Lower(artist_genres[m]))
        \/ StrIn(Lower(artist_genres[m]), Lower(station_genres[n]))

C3_SelectionOverridesBlocklist ==
    /\ pc = "start" =>
          \A ar \in CatalogArtists :
              GenresMatch(ar.genres, request.genres)
                  => ~is_genre_blocked(ar.genres, request.genres)
    /\ \A id \in DOMAIN verified_artist_cache :
          (~verified_artist_cache[id] /\ Len(all_target_genres) <= 8)
              => ~GenresMatch(ArtistInfo(id).genres, genres)

\* station genres {rock, hip-hop}: the candidate with genres {hip hop, rock} was
\* verified, accepted, and its tracks are in the discovery pool
C3_Witness ==
    /\ genres = <<"rock", "hip-hop">>
    /\ "h1" \in DOMAIN verified_artist_cache /\ verified_artist_cache["h1"]
    /\ ArtistInfo("h1").genres = <<"hip hop", "rock">>
    /\ \E k \in 1..Len(discovery_tracks) : discovery_tracks[k].artist_id = "h1"

CatalogBlocked(id) == is_genre_blocked(ArtistInfo(id).genres, genres)
FetchingCandidate == pc \in {"tracks", "collab_tracks"}

C5_Cadence ==
    (Answered /\ Len(discovery_tracks) >= 40 /\ Len(selected_artist_tracks) >= 10)
        => /\ Len(response.tracks) = 50
           /\ \A k \in 1..50 : response.tracks[k].is_discovery = (k % 5 # 0)

C5_Witness ==
    /\ Answered /\ Len(discovery_tracks) >= 40 /\ Len(selected_artist_tracks) >= 10
    /\ Len(response.tracks) = 50

CountDiscovery(tracks) == Cardinality({ k \in 1..Len(tracks) : tracks[k].is_discovery })
CountSelected(tracks)  == Cardinality({ k \in 1..Len(tracks) : ~tracks[k].is_discovery })

\* C6: the playlist has min(50, |selected| + |discovery|) tracks, all of them
\* from the pools; a pool short of its target (40 / 10) is made up for from the
\* other pool
C6_Shortfall ==
    Answered =>
        LET nd == Len(discovery_tracks)
            ns == Len(selected_artist_tracks)
        IN  /\ Len(response.tracks) = Min(50, ns + nd)
            /\ SeqToSet(response.tracks)
                   \subseteq SeqToSet(discovery_tracks) \cup SeqToSet(selected_artist_tracks)
            /\ CountDiscovery(response.tracks) = (IF nd < 40 THEN nd ELSE Min(nd, 50 - Min(ns, 10)))
            /\ CountSelected(response.tracks)  = (IF nd < 40 THEN Min(ns, 50 - nd) ELSE Min(ns, 10))

\* the selected pool is short (fewer than 10) and more than 40 discovery
\* tracks were taken to make up for it
C6_Witness ==
    /\ Answered
    /\ Len(selected_artist_tracks) < 10 /\ Len(selected_artist_tracks) > 0
    /\ CountDiscovery(response.tracks) > 40
    /\ Len(response.tracks) = 50

\* the discovery pool is short and more than 10 selected tracks were taken
C6_WitnessSelectedFill ==
    /\ Answered
    /\ Len(discovery_tracks) < 40 /\ Len(discovery_tracks) > 0
    /\ CountSelected(response.tracks) > 10

\* C7: with an empty selected pool the playlist consists of discovery tracks
\* only, min(50, |discovery|) of them
C7_EmptySelected ==
    (Answered /\ selected_artist_tracks = <<>>)
        => /\ \A k \in 1..Len(response.tracks) : response.tracks[k].is_discovery
           /\ Len(response.tracks) = Min(50, Len(discovery_tracks))

\* no seed track, and more discovery tracks than the 40 of the ratio
C7_Witness ==
    /\ Answered /\ selected_artist_tracks = <<>>
    /\ Len(response.tracks) > 40

\* C8: with no token stored the request ends with 401, no catalog call is ever
\* issued and no track is collected or returned
C8_NoTokenNoWork ==
    tokenStore = <<>> =>
        /\ calls = <<>>
        /\ selected_artist_tracks = <<>> /\ discovery_tracks = <<>>
        /\ response.tracks = <<>>
        /\ response.status \in {0, 401}
        /\ pc \in {"start", "done"}
        /\ pc = "done" => response.status = 401

C8_Witness == tokenStore = <<>> /\ pc = "done" /\ response.status = 401

\* the guard of the action that stands at pc: a request that has not answered
\* stands at a step whose loop entry exists, so that the step can be taken
\* (past its guard every action is total: each call has an outcome)
CanStep ==
    CASE pc \in {"start", "names", "step1", "seed_genres", "step3", "assemble",
                 "tracks", "collab_tracks"} -> TRUE
      [] pc = "step2"        -> g \in 1..Len(Prefix(all_target_genres, 6))
      [] pc = "artists"      -> j \in 1..Len(found_artists)
      [] pc = "albums"       -> i \in 1..Len(Prefix(shuffled_artist_ids, 5))
      [] pc = "album_tracks" -> a \in 1..Len(albums)
      [] pc = "collab"       -> /\ t \in 1..Len(album_tracks)
                                /\ c \in 2..Len(album_tracks[t].artists)
      [] OTHER -> FALSE

\* C9: with a token stored no catalog failure propagates (no answer but a
\* playlist), and until it answers the request can always take its next step
C9_FailuresNeverPropagate ==
    /\ response.status \in {0, 200, 401}
    /\ tokenStore # <<>> =>
          /\ response.status \in {0, 200}
          /\ pc = "done" => response.status = 200
          /\ pc # "done" => CanStep

\* a playlist was returned although a catalog call failed transiently
C9_Witness ==
    /\ Answered /\ failures > 0
    /\ \E k \in 1..Len(calls) : ~calls[k].ok /\ calls[k].api = "artist_top_tracks"
    /\ Len(response.tracks) > 0

\* C10 as claimed: a stored token the upstream rejects ends the request with
\* an authentication error
C10_InvalidTokenSurfaced ==
    (tokenStore # <<>> /\ ~TokenAccepted(FindOne(tokenStore).access_token) /\ pc = "done")
        => response.status = 401

(***************************************************************************)
(* Limits of the discovery pool                                            *)
(***************************************************************************)
InGenreSearch    == pc \in {"step2", "artists", "tracks"}
InCollaborators  == pc \in {"albums", "album_tracks", "collab", "collab_tracks"}

\* C11 as claimed: the discovery pool holds at most 150 tracks during and at
\* the end of the genre-search step, and at most 200 tracks during and at the
\* end of the collaborator step
C11_PoolWithinLimit ==
    /\ (InGenreSearch \/ pc = "step3") => Len(discovery_tracks) <= discovery_limit
    /\ (InCollaborators \/ pc \in {"assemble", "done"})
           => Len(discovery_tracks) <= collaborator_limit

\* the part of C11 that the genre-search step keeps
C11_GenreSearchWithinLimit ==
    (InGenreSearch \/ pc = "step3") => Len(discovery_tracks) <= discovery_limit

\* the limit in force where the request stands
LimitReached ==
    \/ InGenreSearch /\ Len(discovery_tracks) >= discovery_limit
    \/ InCollaborators /\ Len(discovery_tracks) >= collaborator_limit

\* C12 as claimed: once the discovery pool has reached the limit of the step
\* the request stands in, no further catalog call is issued before assembly
C12_NoCallAfterLimit ==
    [][ LimitReached => calls' = calls ]_vars

\* the part of C12 that the genre-search step keeps: the step is left as soon
\* as the pool holds 150 tracks
C12_GenreSearchStopsAtLimit ==
    ~(InGenreSearch /\ Len(discovery_tracks) >= discovery_limit)

(***************************************************************************)
(* Requests of the same process                                            *)
(***************************************************************************)
\* the artists whose top tracks the request being served was delivered
FetchedArtists ==
    { calls[k].arg : k \in { n \in 1..Len(calls) :
                               calls[n].api = "artist_top_tracks" /\ calls[n].ok } }

\* the artists whose catalog entry the request being served was delivered
LookedUpArtists ==
    { calls[k].arg : k \in { n \in 1..Len(calls) : calls[n].api = "artist" /\ calls[n].ok } }

DeliveredUris == UNION { Uris(TopTracks(id)) : id \in FetchedArtists }

PastPools == pc \notin {"start", "names"}

SameCallTwice ==
    /\ Len(history) = 1 /\ history[1].request = request
    /\ history[1].response.status = 200 /\ Answered
    /\ history[1].targets = all_target_genres

DiscoveryUris(tracks) == { tracks[k].uri : k \in { n \in 1..Len(tracks) : tracks[n].is_discovery } }

StationInputs ==
    { r.genres : r \in Requests } \cup
    { <<"country">>, <<"Pop Punk">>, <<"K-Pop">>, <<"Hip-Hop", "Country">>,
      <<"hard rock">>, <<"rap">>, <<"pop", "Death Metal">>, <<"Ska">> }

CandidateInputs ==
    { ar.genres : ar \in CatalogArtists } \cup
    { <<"black metal">>, <<"latin pop", "soul">>, <<"techno">>, <<"classical">>,
      <<"hop">>, <<"Heavy Metal">>, <<"jazz", "Country Rock">>, <<"punk">> }

EitherWay(x, y) == StrIn(x, y) \/ StrIn(y, x)

\* the blocked set as C15 describes it, for lower-cased station genres
ClaimedBlockedSet(station) ==
    LET families == { f \in SeqToSet(BlockedFamilies) :
                        \E n \in 1..Len(station) : EitherWay(f, station[n]) }
        union    == UNION { SeqToSet(BLOCKED_GENRES_MAP(f)) : f \in families }
    IN  union \ { entry \in union : \E n \in 1..Len(station) : EitherWay(entry, station[n]) }

ClaimedBlocked(artist_genres, station_genres) ==
    \E m \in 1..Len(artist_genres) :
        \E entry \in ClaimedBlockedSet(LowerAll(station_genres)) :
            StrIn(entry, Lower(artist_genres[m]))

\* C15: for candidate genres none of which matches a station genre,
\* is_genre_blocked answers blocked exactly when some candidate genre contains
\* an entry of the claimed blocked set; and the blocked_list the code builds
\* holds no entry that matches a station genre
C15_BlockedIffInBlockedSet ==
    /\ pc = "start" =>
          \A station \in StationInputs :
             /\ \A cg \in CandidateInputs :
                   ~GenresMatch(cg, station)
                      => (is_genre_blocked(cg, station) <=> ClaimedBlocked(cg, station))
             /\ \A entry \in BlockedList(LowerAll(station)) :
                   \A n \in 1..Len(station) : ~EitherWay(entry, Lower(station[n]))
    /\ \A id \in DOMAIN verified_artist_cache :
          (verified_artist_cache[id] /\ ~GenresMatch(ArtistInfo(id).genres, genres))
              => ~ClaimedBlocked(ArtistInfo(id).genres, genres)

\* a request whose station genres select a family and strike an entry out of
\* its list, and in which a candidate matching no station genre was looked up
\* and rejected because one of its genres contains an entry of the set
C15_Witness ==
    /\ \E f \in SeqToSet(BlockedFamilies) :
          \E entry \in SeqToSet(BLOCKED_GENRES_MAP(f)) :
             /\ \E n \in 1..Len(genres) : EitherWay(f, Lower(genres[n]))
             /\ entry \notin ClaimedBlockedSet(LowerAll(genres))
    /\ \E id \in DOMAIN verified_artist_cache :
          /\ ~verified_artist_cache[id]
          /\ ~GenresMatch(ArtistInfo(id).genres, genres)
          /\ ClaimedBlocked(ArtistInfo(id).genres, genres)

NoGenres(id) == KnownArtist(id) /\ ArtistInfo(id).genres = <<>>

\* C16: a candidate whose catalog entry reports no genres is not blocked,
\* whatever the station genres, and verify_artist_genre accepts it, whatever
\* the station and target genres of the request
C16_NoGenresAccepted ==
    /\ pc = "start" => \A station \in StationInputs : ~is_genre_blocked(<<>>, station)
    /\ ~is_genre_blocked(<<>>, genres)
    /\ VerifyDecision(<<>>)
    /\ \A id \in DOMAIN verified_artist_cache : NoGenres(id) => verified_artist_cache[id]

\* a request with station and target genres in which a candidate without
\* genres was looked up, accepted, and had a top track pooled
C16_Witness ==
    /\ genres # <<>>
    /\ all_target_genres # <<>>
    /\ \E id \in DOMAIN verified_artist_cache :
          /\ NoGenres(id)
          /\ verified_artist_cache[id]
          /\ \E n \in 1..Len(discovery_tracks) :
                discovery_tracks[n].artist_id = id

\* some genre of the catalog entry matches some of the given target genres
TargetMatch(id, targets) ==
    \E m \in 1..Len(ArtistInfo(id).genres) : \E n \in 1..Len(targets) :
        EitherWay(targets[n], Lower(ArtistInfo(id).genres[m]))

ReportsGenres(id) == KnownArtist(id) /\ ArtistInfo(id).genres # <<>>

TargetsDerived ==
    \/ pc \in {"step2", "artists", "tracks", "step3", "albums", "album_tracks",
               "collab", "collab_tracks", "assemble"}
    \/ Answered

\* the lower-cased catalog genres of the first 5 seed artists
SeedCatalogGenres ==
    { Lower(x) : x \in UNION { SeqToSet(ArtistInfo(id).genres) :
                                 id \in { y \in SeqToSet(Prefix(artist_ids, 5)) :
                                            KnownArtist(y) } } }

SearchCalls == { k \in 1..Len(calls) : calls[k].api = "search" }

\* C18: once derived, the target list holds no genre twice; it starts with the
\* lower-cased genres the (first 5) seed artists reported, all of them when no
\* lookup failed, in some order, and goes on
\* with the lower-cased station genres, in the request's order, leaving out each
\* one that is a seed genre or occurred earlier among the station genres; every genre
\* search is for one of the first 6 entries and no entry is searched twice
C18_TargetGenres ==
    LET tg    == all_target_genres
        st    == LowerAll(genres)
        ns    == Cardinality(selected_artist_genres)
        keep  == { n \in 1..Len(st) : /\ st[n] \notin selected_artist_genres
                                      /\ \A m \in 1..(n - 1) : st[m] # st[n] }
    IN  /\ TargetsDerived =>
             /\ \A m, n \in 1..Len(tg) : m # n => tg[m] # tg[n]
             /\ selected_artist_genres \subseteq SeedCatalogGenres
             /\ (TokenAccepted(sp) /\ failures = 0)
                    => selected_artist_genres = SeedCatalogGenres
             /\ Len(tg) = ns + Cardinality(keep)
             /\ { tg[k] : k \in 1..ns } = selected_artist_genres
             /\ \A n \in keep : tg[ns + Cardinality({ m \in keep : m <= n })] = st[n]
        /\ \A k \in SearchCalls :
             /\ \E n \in 1..Min(6, Len(tg)) : calls[k].arg = tg[n]
             /\ \A k2 \in SearchCalls : calls[k2].arg = calls[k].arg => k2 = k

\* eight station genres, two of them equal once lower-cased: seven target
\* genres, and the playlist was returned after searches for the first six only
C18_Witness ==
    /\ Answered
    /\ Len(genres) = 8 /\ Len(all_target_genres) = 7
    /\ { calls[k].arg : k \in SearchCalls } = SeqToSet(Prefix(all_target_genres, 6))
    /\ Cardinality(SearchCalls) = 6

\* the tracks of the discovery pool that are among the top tracks of artist id
PooledTopTracks(id) ==
    { n \in 1..Len(discovery_tracks) : discovery_tracks[n].uri \in Uris(TopTracks(id)) }

\* C19: over the whole request the discovery pool holds at most 5 of the top
\* tracks of any artist it has a track of (at most 3 would be asked of an
\* artist found as a collaborator only)
C19_AtMostNPerCandidate ==
    \A id \in { discovery_tracks[n].artist_id : n \in 1..Len(discovery_tracks) } :
        Cardinality(PooledTopTracks(id)) <= 5

\* what does hold: one fetch of top tracks adds at most 5 tracks to the pool
\* (3 for a collaborator)
C19_AtMostNPerFetch ==
    [][ /\ pc = "tracks" => Len(discovery_tracks') <= Len(discovery_tracks) + 5
        /\ pc = "collab_tracks" => Len(discovery_tracks') <= Len(discovery_tracks) + 3 ]_vars

(***************************************************************************)
(* The interleave loop as a function of the two lists                      *)
(***************************************************************************)
MaxDiscovery == 9    \* longest discovery list the loop is applied to on its own
MaxSelected == 3     \* longest selected list the loop is applied to on its own

DiscoveryList(d) == [ k \in 1..d |-> [uri |-> <<"d", k>>, is_discovery |-> TRUE] ]
SelectedList(s)  == [ k \in 1..s |-> [uri |-> <<"s", k>>, is_discovery |-> FALSE] ]

IsDiscovery(track) == track.is_discovery
IsSelected(track)  == ~track.is_discovery

\* out holds the tracks of D and of S once each and in their order, and the
\* k-th track of S stands after exactly min(4k, |D|) tracks of D
InterleaveOf(out, D, S) ==
    /\ Len(out) = Len(D) + Len(S)
    /\ SelectSeq(out, IsDiscovery) = D
    /\ SelectSeq(out, IsSelected) = S
    /\ \A k \in 1..Len(S) :
          /\ out[k + Min(4 * k, Len(D))] = S[k]
          /\ Cardinality({ n \in 1..(k + Min(4 * k, Len(D)) - 1) : out[n].is_discovery })
                = Min(4 * k, Len(D))

\* every pass of the loop that is entered moves an index forward
LoopAdvances(d, s) ==
    \A discovery_idx \in 0..d, selected_idx \in 0..s :
        (discovery_idx < d \/ selected_idx < s)
            => Min(group_size, d - discovery_idx) + (IF selected_idx < s THEN 1 ELSE 0) > 0

\* C20: for every length of the discovery list D and of the selected list S the
\* interleave loop ends, its output holds every track of D and of S exactly
\* once in their relative order, and the k-th selected track is preceded by
\* exactly min(4k, |D|) discovery tracks; the same holds of every playlist
\* returned, for the lists chosen from the two pools
C20_Interleave ==
    /\ pc = "start" =>
          \A d \in 0..MaxDiscovery, s \in 0..MaxSelected :
             /\ LoopAdvances(d, s)
             /\ InterleaveOf(Interleave(DiscoveryList(d), SelectedList(s), 0, 0, <<>>),
                             DiscoveryList(d), SelectedList(s))
    /\ Answered =>
          InterleaveOf(response.tracks,
                       FinalDiscovery(discovery_tracks, selected_artist_tracks),
                       FinalSelected(discovery_tracks, selected_artist_tracks))

\* a playlist returned from more than 4 discovery tracks and so many selected
\* tracks that the discovery tracks run out before the selected ones
C20_Witness ==
    /\ Answered
    /\ LET D == FinalDiscovery(discovery_tracks, selected_artist_tracks)
           S == FinalSelected(discovery_tracks, selected_artist_tracks)
       IN  /\ Len(D) > 4 /\ Len(S) >= 2 /\ Len(D) < 4 * Len(S)
           /\ Len(response.tracks) = Len(D) + Len(S)

(***************************************************************************)
(* Failures of single catalog calls                                        *)
(***************************************************************************)
\* this step issued a catalog call `api` that failed
FailedCall(api) ==
    /\ Len(calls') = Len(calls) + 1
    /\ calls'[Len(calls')].api = api
    /\ ~calls'[Len(calls')].ok

PoolsKept ==
    /\ selected_artist_tracks' = selected_artist_tracks
    /\ discovery_tracks' = discovery_tracks
    /\ seen_uris' = seen_uris

LastSearchedEntry == Min(6, Len(all_target_genres))

\* C21: a failed catalog call of the discovery steps leaves the pools as they
\* were and neither ends the request nor produces an error; after a failed
\* search for target genre g the loop stands at genre g + 1 when there is one
\* among the first 6, and the search for it is the next call; after a failed
\* top-tracks call for a candidate the loop stands at the next artist of the
\* search result (the next track artist of the album track for a collaborator)
C21_FailureSkipsOneItem ==
    /\ [][ (pc \in {"step2", "artists", "tracks", "albums", "album_tracks",
                    "collab", "collab_tracks"}
              /\ Len(calls') = Len(calls) + 1 /\ ~calls'[Len(calls')].ok)
            => (PoolsKept /\ pc' # "done" /\ response' = NoResponse) ]_vars
    /\ [][ (pc = "step2" /\ FailedCall("search") /\ g < LastSearchedEntry)
            => (pc' = "step2" /\ g' = g + 1) ]_vars
    /\ [](\A k \in 1..Len(calls) :
             (/\ calls[k].api = "search" /\ ~calls[k].ok
              /\ \E n \in 1..(LastSearchedEntry - 1) : calls[k].arg = all_target_genres[n])
                => \/ k = Len(calls) /\ pc = "step2"
                   \/ /\ k < Len(calls)
                      /\ calls[k + 1].api = "search"
                      /\ \E n \in 1..(LastSearchedEntry - 1) :
                            /\ calls[k].arg = all_target_genres[n]
                            /\ calls[k + 1].arg = all_target_genres[n + 1])
    /\ [][ (pc = "tracks" /\ FailedCall("artist_top_tracks") /\ j < Len(found_artists))
            => (pc' = "artists" /\ j' = j + 1 /\ g' = g) ]_vars
    /\ [][ (pc = "collab_tracks" /\ FailedCall("artist_top_tracks")
              /\ c < Len(album_tracks[t].artists))
            => (pc' = "collab" /\ t' = t /\ c' = c + 1) ]_vars

\* call k fetched the top tracks of a candidate (not a seed) and succeeded, and
\* a track of that candidate is in the discovery pool
PooledFetch(k) ==
    /\ calls[k].api = "artist_top_tracks" /\ calls[k].ok
    /\ calls[k].arg \notin SeqToSet(artist_ids)
    /\ \E n \in 1..Len(discovery_tracks) : discovery_tracks[n].artist_id = calls[k].arg

\* the top-tracks call for one candidate failed although the token is good;
\* a candidate fetched before it and a candidate fetched after it both have
\* tracks in the pool of the playlist that was returned
C21_Witness ==
    /\ Answered /\ TokenAccepted(sp)
    /\ \E k \in 1..Len(calls) :
          /\ calls[k].api = "artist_top_tracks" /\ ~calls[k].ok
          /\ calls[k].arg \notin SeqToSet(artist_ids)
          /\ \E k1 \in 1..(k - 1) : PooledFetch(k1)
          /\ \E k2 \in (k + 1)..Len(calls) : PooledFetch(k2)

(***************************************************************************)
(* The token store under re-authentication                                 *)
(***************************************************************************)
TokenStored == \E p \in Callbacks : callback[p] = "redirected"
UserTokens == SelectSeq(tokenStore, LAMBDA doc : doc.user_id = "default_user")

\* C22, first part: a get_tracks request whose token lookup comes after a
\* spotify_callback has stored a token is not answered 401
C22_TokenFoundOnceStored ==
    [][ (pc = "start" /\ pc' # "start" /\ TokenStored) => response'.status # 401 ]_vars

\* C22, second part: when no spotify_callback is under way and one has stored
\* a token, the store holds exactly one token document of the user
C22_OneTokenDocument ==
    (TokenStored /\ \A p \in Callbacks : callback[p] \in {"arrived", "failed", "redirected"})
        => Len(UserTokens) = 1

\* C22: both parts together
C22_TokenStoreUnderCallbacks ==
    /\ C22_TokenFoundOnceStored
    /\ []C22_OneTokenDocument

(***************************************************************************)
(* The is_discovery flag                                                   *)
(***************************************************************************)
\* the URIs the top-tracks calls of STEP 1 can return
SeedTopUris ==
    UNION { Uris(TopTracks(id)) :
              id \in { x \in SeqToSet(Prefix(shuffled_artist_ids, 10)) : KnownArtist(x) } }

\* the candidates whose top tracks were fetched during discovery
FetchedCandidates ==
    { calls[k].arg : k \in { n \in 1..Len(calls) :
                               /\ calls[n].api = "artist_top_tracks" /\ calls[n].ok
                               /\ calls[n].arg \notin SeqToSet(artist_ids) } }

InDiscoverySteps ==
    pc \in {"seed_genres", "step2", "artists", "tracks", "step3", "albums",
            "album_tracks", "collab", "collab_tracks"}

\* C23: the selected pool holds tracks flagged false only, all of them top
\* tracks of seed artists, and is filled in STEP 1 only; the discovery pool
\* holds tracks flagged true only and is filled during discovery only, after
\* STEP 1; a URI is in one pool only, so a track of the playlist is flagged
\* false exactly when STEP 1 added it and true exactly when discovery added
\* it, and a URI STEP 1 took is nowhere in the playlist flagged true
C23_FlagTellsOrigin ==
    /\ [](/\ \A n \in 1..Len(selected_artist_tracks) :
               /\ ~selected_artist_tracks[n].is_discovery
               /\ selected_artist_tracks[n].uri \in SeedTopUris
          /\ \A n \in 1..Len(discovery_tracks) :
               /\ discovery_tracks[n].is_discovery
               /\ discovery_tracks[n].uri \notin Uris(selected_artist_tracks))
    /\ [][ (Uris(selected_artist_tracks') # Uris(selected_artist_tracks)) => pc = "step1" ]_vars
    /\ [][ (Uris(discovery_tracks') # Uris(discovery_tracks))
              => pc \in {"tracks", "collab_tracks"} ]_vars
    /\ [](InDiscoverySteps => pc # "step1")
    /\ [][ InDiscoverySteps => pc' # "step1" ]_vars
    /\ [](Answered =>
            \A n \in 1..Len(response.tracks) :
               /\ ~response.tracks[n].is_discovery
                     <=> response.tracks[n].uri \in Uris(selected_artist_tracks)
               /\ response.tracks[n].is_discovery
                     <=> response.tracks[n].uri \in Uris(discovery_tracks))

\* a playlist with a track flagged false that STEP 1 took from a seed artist's
\* top tracks and that is also a top track of a candidate fetched during
\* discovery, other tracks of which are in the playlist flagged true
C23_Witness ==
    /\ Answered
    /\ \E n \in 1..Len(response.tracks) : \E id \in FetchedCandidates :
          /\ ~response.tracks[n].is_discovery
          /\ response.tracks[n].uri \in Uris(TopTracks(id))
          /\ \E m \in 1..Len(response.tracks) :
                /\ response.tracks[m].is_discovery
                /\ response.tracks[m].uri \in Uris(TopTracks(id))
          /\ \A m \in 1..Len(response.tracks) :
                response.tracks[m].uri = response.tracks[n].uri => m = n

(***************************************************************************)
(* verified_artist_cache                                                   *)
(***************************************************************************)
\* the artist verify_artist_genre is called for by the step taken from this
\* state, if any: a search result that is not a seed, or a track artist not
\* yet checked that is not a seed
Verified ==
    IF pc = "artists"
    THEN LET artist == found_artists[j] IN
         IF artist.id \in SeqToSet(artist_ids) \/ Lower(artist.name) \in artist_names
         THEN {} ELSE {artist.id}
    ELSE IF pc = "collab"
    THEN LET track_artist == album_tracks[t].artists[c] IN
         IF \/ track_artist.id \in checked_collaborators
            \/ track_artist.id \in SeqToSet(artist_ids)
            \/ Lower(track_artist.name) \in artist_names
         THEN {} ELSE {track_artist.id}
    ELSE {}

Accepted(id) == pc' \in {"tracks", "collab_tracks"} /\ cand'.id = id

LookedUp(id, ok) ==
    calls' = Append(calls, [api |-> "artist", arg |-> id, ok |-> ok])

\* C24: a decision enters the cache only with a successful lookup of the
\* artist and never changes afterwards; a check of a cached artist issues no
\* catalog call and answers what is cached; a check of an artist not cached
\* looks it up, and when the lookup fails the artist is accepted and the cache
\* is left as it was
C24_CacheOnlyAfterLookup ==
    /\ [][ \A id \in DOMAIN verified_artist_cache :
              /\ id \in DOMAIN verified_artist_cache'
              /\ verified_artist_cache'[id] = verified_artist_cache[id] ]_vars
    /\ [][ \A id \in DOMAIN verified_artist_cache' \ DOMAIN verified_artist_cache :
              id \in Verified /\ LookedUp(id, TRUE) ]_vars
    /\ [][ \A id \in Verified \cap DOMAIN verified_artist_cache :
              /\ calls' = calls
              /\ Accepted(id) <=> verified_artist_cache[id] ]_vars
    /\ [][ \A id \in Verified \ DOMAIN verified_artist_cache :
              \/ LookedUp(id, TRUE) /\ id \in DOMAIN verified_artist_cache'
              \/ /\ LookedUp(id, FALSE)
                 /\ Accepted(id)
                 /\ verified_artist_cache' = verified_artist_cache ]_vars

ArtistCalls(id, ok) ==
    { k \in 1..Len(calls) : calls[k] = [api |-> "artist", arg |-> id, ok |-> ok] }

\* a playlist was returned for a request in which the lookup of one candidate
\* failed, its tracks were pooled, and a later check looked it up again and
\* cached the decision; and another candidate was looked up and rejected in
\* STEP 2 and met again as a collaborator in STEP 3 without a second lookup
C24_Witness ==
    /\ Answered /\ TokenAccepted(sp)
    /\ \E id \in DOMAIN verified_artist_cache :
          /\ id \notin SeqToSet(artist_ids)
          /\ \E k1 \in ArtistCalls(id, FALSE) : \E k2 \in ArtistCalls(id, TRUE) : k1 < k2
          /\ \E n \in 1..Len(discovery_tracks) : discovery_tracks[n].artist_id = id
    /\ \E id \in DOMAIN verified_artist_cache :
          /\ ~verified_artist_cache[id]
          /\ id \in checked_collaborators
          /\ Cardinality(ArtistCalls(id, TRUE)) = 1
          /\ ArtistCalls(id, FALSE) = {}
          /\ \E k \in ArtistCalls(id, TRUE) : \E ka \in 1..Len(calls) :
                calls[ka].api = "artist_albums" /\ k < ka
=============================================================================
